---------------------------- MODULE Spec2Model ----------------------------
(***************************************************************************)
(* Model of the propositional-logic core of the Pitsweeper agent:          *)
(*   Homework 1/src/maze_clause.py          (MazeClause)                   *)
(*   Homework 1/src/maze_knowledge_base.py  (MazeKnowledgeBase)            *)
(*                                                                         *)
(* A MazeClause is a mutable Python object: a dict props (proposition ->   *)
(* polarity) and a flag valid.  Objects live in heap; Python sets of       *)
(* clauses are sets of entries, each holding the hash the object had when  *)
(* it was inserted and a reference to the object, so that an in-place      *)
(* mutation of a stored object (invert) is visible through the set while   *)
(* the entry keeps its old hash, as in CPython.                            *)
(***************************************************************************)
EXTENDS Integers, Sequences, FiniteSets, TLC

\* ------------------------------------------------------------------ bounds
\* number of propositions ("P", loc) in the vocabulary
NumProps == 3
\* longest list of signed propositions handed to the MazeClause constructor
MaxLen == 3
\* longest list of signed propositions of a clause told to or asked of the
\* knowledge base
MaxWidth == 2
\* most clause objects ever told to one knowledge base
MaxObjs == 2
\* the maze of an agent: GridW columns, GridH rows, at most MaxPits pits
GridW == 4
GridH == 3
MaxPits == 3
\* most think steps of one agent
MaxSteps == 3

Props == 1..NumProps
SignedProp == Props \X BOOLEAN

\* the lists of at most n signed propositions
PropLists(n) == UNION {[1..k -> SignedProp] : k \in 0..n}

VARIABLES
    heap,   \* heap[o]: current value of clause object o; heap[0] is the query
            \* object of a fresh ask, heap[1..] the objects handed to tell
    kb,     \* MazeKnowledgeBase.clauses: a Python set (entries)
    pc,     \* "idle" | "ask" (inside ask's while loop) | "done" (ask returned)
    query,  \* the object reference ask was called with
    work,   \* ask's local set `clauses`
    newc,   \* ask's local set `new_clauses`
    res,    \* what ask returned: "True" | "False" | "KeyError" | "none"
    askq,   \* value of the query object when ask was called
    askkb,  \* values of the stored clauses when ask was called
    out,    \* record of the last operation (kept for the claims to read)
    safe_tiles,     \* MazeAgent.safe_tiles
    pit_tiles,      \* MazeAgent.pit_tiles
    possible_pits,  \* MazeAgent.possible_pits
    env,            \* the Environment the agent was constructed with
    frame,          \* the locals of a running infer_adjacent_pits or
                    \* find_best_next_move
    step            \* what the running call of think started from (kept
                    \* for the claims to read)

\* the state of a MazeAgent and of its Environment
avars == <<safe_tiles, pit_tiles, possible_pits, env, frame, step>>

vars == <<heap, kb, pc, query, work, newc, res, askq, askkb, out,
          safe_tiles, pit_tiles, possible_pits, env, frame, step>>

\* ------------------------------------------------------- MazeClause values
EmptyDict == [p \in {} |-> TRUE]

DictSet(d, k, v) == [p \in (DOMAIN d) \cup {k} |-> IF p = k THEN v ELSE d[p]]

DictDel(d, k) == [p \in (DOMAIN d) \ {k} |-> d[p]]

\* dict.update: the entries of d2 override those of d1
DictUpdate(d1, d2) ==
    [p \in (DOMAIN d1) \cup (DOMAIN d2) |-> IF p \in DOMAIN d2 THEN d2[p] ELSE d1[p]]

RECURSIVE InitLoop(_, _, _, _)
\* the for loop of MazeClause.__init__ from list position i on
InitLoop(props, valid, lst, i) ==
    IF i > Len(lst) THEN [props |-> props, valid |-> valid]
    ELSE LET k == lst[i][1]
             v == lst[i][2]
         IN  IF k \notin DOMAIN props
               THEN InitLoop(DictSet(props, k, v), valid, lst, i + 1)
             ELSE IF props[k] # v
               THEN InitLoop(DictDel(props, k), TRUE, lst, i + 1)
             ELSE InitLoop(props, valid, lst, i + 1)

\* MazeClause(props): the constructor
MazeClause(lst) == InitLoop(EmptyDict, FALSE, lst, 1)

RECURSIVE Items(_)
\* list(d.items()): the entries of a dict as a list of (key, value) pairs
Items(d) ==
    IF DOMAIN d = {} THEN <<>>
    ELSE LET k == CHOOSE p \in DOMAIN d : \A r \in DOMAIN d : p <= r
         IN  <<<<k, d[k]>>>> \o Items(DictDel(d, k))

\* get_prop: "None" when the proposition is absent
get_prop(c, p) == IF p \notin DOMAIN c.props THEN "None"
                  ELSE IF c.props[p] THEN "True" ELSE "False"

is_valid(c) == c.valid

is_empty(c) == (~c.valid) /\ Cardinality(DOMAIN c.props) = 0

len(c) == Cardinality(DOMAIN c.props)

\* __eq__: frozenset(self.props) is the frozenset of the dict's KEYS
eq(c1, c2) == (DOMAIN c1.props = DOMAIN c2.props) /\ (c1.valid = c2.valid)

\* __hash__: hash((frozenset(props.items()), valid)); two hashes are taken to
\* be equal exactly when the items and the flag are equal
hash(c) == <<c.props, c.valid>>

\* Disagreed without the comparison of the polarities: every shared
\* proposition counts as a conflict
DisagreedShared(c1, c2) == (DOMAIN c1.props) \cap (DOMAIN c2.props)

\* the propositions on which c1 and c2 carry opposite polarities
Disagreed(c1, c2) ==
    {p \in (DOMAIN c1.props) \cap (DOMAIN c2.props) : c1.props[p] # c2.props[p]}

\* Resolvent without `resolved_dict.pop(...)`: the conflicting proposition
\* stays, with the polarity c2 gives it
ResolventNoPop(c1, c2) ==
    {MazeClause(Items(DictUpdate(c1.props, c2.props)))}

\* resolve, lines 204-212, reached with exactly one disagreed proposition
Resolvent(c1, c2) ==
    LET k == CHOOSE p \in Disagreed(c1, c2) : TRUE
    IN  {MazeClause(Items(DictDel(DictUpdate(c1.props, c2.props), k)))}

\* resolve that only refuses clauses with no disagreed proposition
\* (`< 1` for `!= 1`, and no early return)
resolveAnyConflict(c1, c2) ==
    IF Cardinality(Disagreed(c1, c2)) < 1 THEN {} ELSE Resolvent(c1, c2)

\* MazeClause.resolve(c1, c2): a set of zero or one clause values
resolve(c1, c2) ==
    IF Cardinality(Disagreed(c1, c2)) # 1 THEN {} ELSE Resolvent(c1, c2)

\* the value the receiver (and the returned reference) has after invert()
invert(c) == [props |-> [p \in DOMAIN c.props |-> ~c.props[p]], valid |-> c.valid]


\* ------------------------------------------------------------ Python sets
\* A reference to a clause object: a heap object (o >= 0), or an object that
\* no caller holds and nothing mutates (a resolvent), carried by its value.
Anon == -1

Ref(o) == [o |-> o, a |-> MazeClause(<<>>)]

AnonRef(c) == [o |-> Anon, a |-> c]

\* the current value of the object r refers to, in heap H
Val(H, r) == IF r.o = Anon THEN r.a ELSE H[r.o]

\* the entries a lookup of object r finds: CPython compares the stored hash
\* with hash(r) first, and then identity or __eq__
SetFind(S, H, r) ==
    {e \in S : e.h = hash(Val(H, r)) /\ (e.r = r \/ eq(Val(H, e.r), Val(H, r)))}

SetContains(S, H, r) == SetFind(S, H, r) # {}

\* set.add
SetAdd(S, H, r) ==
    IF SetContains(S, H, r) THEN S ELSE S \cup {[h |-> hash(Val(H, r)), r |-> r]}

\* the current values of the objects in a set
Values(S, H) == {Val(H, e.r) : e \in S}

\* ------------------------------------------------- MazeKnowledgeBase.ask
\* filter_clauses, one clause of the for loop over potential_clauses.copy()
ScanOne(st, e, H) ==
    LET c == Val(H, e.r)
    IN  IF (DOMAIN c.props) \cap st.help # {}
          THEN [st EXCEPT !.nec = SetAdd(@, H, e.r),
                          !.added = TRUE,
                          !.help = @ \cup DOMAIN c.props,
                          !.rem = SetAdd(@, H, e.r)]
          ELSE st

RECURSIVE ScanOutcomes(_, _, _)
\* the for loop over the entries todo, in every iteration order of the set
ScanOutcomes(todo, st, H) ==
    IF todo = {} THEN {st}
    ELSE UNION {ScanOutcomes(todo \ {e}, ScanOne(st, e, H), H) : e \in todo}

RECURSIVE RemoveOutcomes(_, _, _)
\* for clause in to_remove: potential_clauses.remove(clause), in every
\* iteration order; "KeyError" when a remove finds no entry
RemoveOutcomes(pot, rem, H) ==
    IF rem = {} THEN {[err |-> FALSE, pot |-> pot]}
    ELSE UNION {
           IF SetContains(pot, H, e.r)
             THEN RemoveOutcomes(pot \ SetFind(pot, H, e.r), rem \ {e}, H)
             ELSE {[err |-> TRUE, pot |-> {}]}
           : e \in rem}

RECURSIVE FilterLoop(_, _)
\* the while loop of filter_clauses from the state st of its locals on:
\* the set of possible results [err, nec]
FilterLoop(st, H) ==
    UNION {
      IF ~s.added THEN {[err |-> FALSE, nec |-> s.nec]}
      ELSE UNION {
             IF r.err THEN {[err |-> TRUE, nec |-> {}]}
             ELSE FilterLoop([s EXCEPT !.pot = r.pot, !.rem = {}], H)
             : r \in RemoveOutcomes(s.pot, s.rem, H)}
      : s \in ScanOutcomes(st.pot, [st EXCEPT !.added = FALSE], H)}

\* filter_clauses(query) on the stored set S
filter_clauses(S, H, q) ==
    FilterLoop([pot |-> S, nec |-> {}, help |-> DOMAIN Val(H, q).props,
                rem |-> {}, added |-> FALSE], H)

\* query.invert(): the heap afterwards (the receiver itself is changed, since
\* `inverse_query = self` copies the reference) and the reference returned
invert_call(H, q) == [heap |-> [H EXCEPT ![q.o] = invert(H[q.o])], ret |-> q]

\* the resolvents of one for loop over itertools.combinations(clauses, 2);
\* the set's iteration order decides which clause of a pair comes first
PassResolvents(W, H) ==
    UNION {resolve(Val(H, p[1].r), Val(H, p[2].r)) :
             p \in {x \in W \X W : x[1] # x[2]}}

\* `if not new_clauses` for the subset test: ask gives up only when no
\* resolvent was ever found
IsSubsetOnlyWhenEmpty(N, W, H) == N = {}

\* new_clauses.issubset(clauses)
IsSubset(N, W, H) == \A c \in N : SetContains(W, H, AnonRef(c))

\* clauses.update(new_clauses)
SetUpdate(W, N, H) ==
    W \cup {[h |-> hash(c), r |-> AnonRef(c)] : c \in {x \in N : ~SetContains(W, H, AnonRef(x))}}


\* --------------------------------------------- knowledge-base state machine
EmptyClause == MazeClause(<<>>)

NumObjs == Cardinality(DOMAIN heap) - 1

\* no MazeAgent has been constructed
NoEnv == [goal |-> <<0, 0>>]

\* the agent is in no loop of infer_adjacent_pits or find_best_next_move
NoFrame == [caller |-> "none", todo |-> {}, copy |-> {}, adj |-> {},
            num_pits |-> 0, priority_frontier |-> <<>>, i |-> 0]

\* no call of think is running; log is the order of the tells of percept
\* facts ("tell"), the simplify passes and the asks of the running call
NoStep == [possible_pits |-> {}, pit_tiles |-> {}, log |-> <<>>]

NoAgent ==
    /\ safe_tiles = {}
    /\ pit_tiles = {}
    /\ possible_pits = {}
    /\ env = NoEnv
    /\ frame = NoFrame
    /\ step = NoStep

KBInit ==
    /\ heap = [o \in {0} |-> EmptyClause]
    /\ kb = {}
    /\ pc = "idle"
    /\ query = Ref(0)
    /\ work = {}
    /\ newc = {}
    /\ res = "none"
    /\ askq = EmptyClause
    /\ askkb = {}
    /\ out = [op |-> "none"]
    /\ NoAgent

\* c = MazeClause(lst); kb.tell(c): the caller keeps the object c
Tell(lst) ==
    /\ pc = "idle"
    /\ NumObjs < MaxObjs
    /\ LET o == NumObjs + 1
           H == [x \in (DOMAIN heap) \cup {o} |-> IF x = o THEN MazeClause(lst) ELSE heap[x]]
       IN  /\ heap' = H
           /\ kb' = SetAdd(kb, H, Ref(o))
    /\ UNCHANGED <<pc, query, work, newc, res, askq, askkb, out>>
    /\ UNCHANGED avars

\* kb.tell(c) with an object c that was told before
TellAgain(o) ==
    /\ pc = "idle"
    /\ o \in 1..NumObjs
    /\ kb' = SetAdd(kb, heap, Ref(o))
    /\ UNCHANGED <<heap, pc, query, work, newc, res, askq, askkb, out>>
    /\ UNCHANGED avars

\* ask(query), lines 51-57: filter_clauses, invert, the two local sets
AskBegin(H, q) ==
    /\ query' = q
    /\ askq' = Val(H, q)
    /\ askkb' = Values(kb, H)
    /\ \E f \in filter_clauses(kb, H, q) :
         IF f.err
           THEN /\ heap' = H
                /\ pc' = "done"
                /\ res' = "KeyError"
                /\ work' = {}
           ELSE LET inv == invert_call(H, q)
                IN  /\ heap' = inv.heap
                    /\ work' = SetAdd(f.nec, inv.heap, inv.ret)
                    /\ pc' = "ask"
                    /\ res' = "none"
    /\ newc' = {}
    /\ UNCHANGED <<kb, out>>
    /\ UNCHANGED avars

\* kb.ask(MazeClause(lst)): the query is an object of its own
AskFresh(lst) ==
    /\ pc = "idle"
    /\ AskBegin([heap EXCEPT ![0] = MazeClause(lst)], Ref(0))

\* kb.ask(c) with an object c that was handed to tell before
AskStored(o) ==
    /\ pc = "idle"
    /\ o \in 1..NumObjs
    /\ AskBegin(heap, Ref(o))

\* one iteration of ask's while loop, lines 60-79
AskPass ==
    /\ pc = "ask"
    /\ LET R == PassResolvents(work, heap)
           N == newc \cup R
       IN  IF EmptyClause \in R
             THEN /\ pc' = "done"
                  /\ res' = "True"
                  /\ UNCHANGED <<work, newc>>
           ELSE IF IsSubset(N, work, heap)
             THEN /\ pc' = "done"
                  /\ res' = "False"
                  /\ newc' = N
                  /\ UNCHANGED work
           ELSE /\ work' = SetUpdate(work, N, heap)
                /\ newc' = N
                /\ UNCHANGED <<pc, res>>
    /\ UNCHANGED <<heap, kb, query, askq, askkb, out>>
    /\ UNCHANGED avars

\* ask has returned (or raised); its locals and a fresh query object are gone
Return ==
    /\ pc = "done"
    /\ pc' = "idle"
    /\ heap' = [heap EXCEPT ![0] = EmptyClause]
    /\ query' = Ref(0)
    /\ work' = {}
    /\ newc' = {}
    /\ res' = "none"
    /\ askq' = EmptyClause
    /\ askkb' = {}
    /\ UNCHANGED <<kb, out>>
    /\ UNCHANGED avars

Next ==
    \/ \E lst \in PropLists(MaxWidth) : Tell(lst)
    \/ \E o \in 1..MaxObjs : TellAgain(o)
    \/ \E lst \in PropLists(MaxWidth) : AskFresh(lst)
    \/ \E o \in 1..MaxObjs : AskStored(o)
    \/ AskPass
    \/ Return

Spec == KBInit /\ [][Next]_vars


\* ------------------------------------------------ clause state machine
\* A caller builds two clause objects, heap[1] and then heap[2], and uses them.
ClauseInit ==
    /\ heap = [o \in 0..2 |-> EmptyClause]
    /\ kb = {}
    /\ pc = "new1"
    /\ query = Ref(0)
    /\ work = {}
    /\ newc = {}
    /\ res = "none"
    /\ askq = EmptyClause
    /\ askkb = {}
    /\ out = [op |-> "none"]
    /\ NoAgent

\* the propositions a list supplies with both polarities
BothPolarities(lst) ==
    LET given == {lst[i] : i \in 1..Len(lst)}
    IN  {p \in Props : <<p, TRUE>> \in given /\ <<p, FALSE>> \in given}

\* heap[o] = MazeClause(lst), for a list lst of at most MaxLen entries
New(o) ==
    /\ pc = IF o = 1 THEN "new1" ELSE "new2"
    /\ pc' = IF o = 1 THEN "new2" ELSE "ops"
    /\ \E lst \in PropLists(MaxLen) :
         /\ heap' = [heap EXCEPT ![o] = MazeClause(lst)]
         /\ out' = [op |-> "init", obj |-> o, both |-> BothPolarities(lst)]
    /\ UNCHANGED <<kb, query, work, newc, res, askq, askkb>>
    /\ UNCHANGED avars

\* MazeClause.resolve(heap[1], heap[2]) and MazeClause.resolve(heap[2], heap[1])
DoResolve ==
    /\ pc = "ops"
    /\ out' = [op |-> "resolve", ab |-> resolve(heap[1], heap[2]),
               ba |-> resolve(heap[2], heap[1])]
    /\ UNCHANGED <<heap, kb, pc, query, work, newc, res, askq, askkb>>
    /\ UNCHANGED avars

\* r = heap[o].invert()
DoInvert(o) ==
    /\ pc = "ops"
    /\ LET r == invert_call(heap, Ref(o))
       IN  /\ heap' = r.heap
           /\ out' = [op |-> "invert", recv |-> o, before |-> heap[o], ret |-> r.ret]
    /\ UNCHANGED <<kb, pc, query, work, newc, res, askq, askkb>>
    /\ UNCHANGED avars

\* heap[1] == heap[2]
DoEq ==
    /\ pc = "ops"
    /\ out' = [op |-> "eq", r |-> eq(heap[1], heap[2])]
    /\ UNCHANGED <<heap, kb, pc, query, work, newc, res, askq, askkb>>
    /\ UNCHANGED avars

ClauseNext ==
    \/ \E o \in 1..2 : New(o)
    \/ DoResolve
    \/ \E o \in 1..2 : DoInvert(o)
    \/ DoEq

SpecClause == ClauseInit /\ [][ClauseNext]_vars


\* ------------------------------------------------------- claims, MazeClause
\* C5: invert does not mutate its receiver: after c.invert() the mapping of c
\* is what it was before the call, and the returned clause holds every
\* proposition of c with the flipped polarity.
C5_InvertLeavesReceiver ==
    out.op = "invert" =>
        /\ heap[out.recv] = out.before
        /\ DOMAIN Val(heap, out.ret).props = DOMAIN out.before.props
        /\ \A p \in DOMAIN out.before.props :
             Val(heap, out.ret).props[p] = ~out.before.props[p]

\* C7: a clause built from a list in which some proposition occurs with both
\* polarities has its tautology flag set and holds no entry for any
\* proposition that was supplied with both polarities.
C7_TautologyCollapse ==
    (out.op = "init" /\ out.both # {}) =>
        /\ heap[out.obj].valid
        /\ (DOMAIN heap[out.obj].props) \cap out.both = {}

\* C8: c1 == c2 holds if and only if both clauses map the same propositions
\* to the same polarities and have the same tautology flag.
C8_EqualityIsSameMapping ==
    out.op = "eq" =>
        (out.r <=> (heap[1].props = heap[2].props /\ heap[1].valid = heap[2].valid))

\* C9: resolve is symmetric: resolve(a, b) and resolve(b, a) are the same set
\* of clauses.
C9_ResolveSymmetric ==
    out.op = "resolve" => out.ab = out.ba

\* C9 witness: two clauses of two propositions each that resolve to a clause.
C9_Witness ==
    /\ out.op = "resolve"
    /\ len(heap[1]) = 2
    /\ len(heap[2]) = 2
    /\ heap[1] # heap[2]
    /\ \E c \in out.ab : len(c) = 2

\* the propositions two clauses share with opposite polarities
Conflicts(a, b) ==
    {p \in Props : /\ p \in DOMAIN a.props
                   /\ p \in DOMAIN b.props
                   /\ a.props[p] # b.props[p]}

\* the union of two mappings without the propositions in D
UnionWithout(a, b, D) ==
    [p \in ((DOMAIN a.props) \cup (DOMAIN b.props)) \ D |->
        IF p \in DOMAIN a.props THEN a.props[p] ELSE b.props[p]]

\* C10: for non-tautology clauses, resolve returns the empty set when the
\* number of shared propositions with opposite polarity is zero or at least
\* two; when it is exactly one it returns exactly one clause, not a
\* tautology, whose mapping is the union of the two mappings without the
\* conflicting proposition.
C10_ResolveResult ==
    (out.op = "resolve" /\ ~heap[1].valid /\ ~heap[2].valid) =>
        LET D == Conflicts(heap[1], heap[2])
        IN  IF Cardinality(D) = 1
              THEN out.ab = {[props |-> UnionWithout(heap[1], heap[2], D),
                              valid |-> FALSE]}
              ELSE out.ab = {}

\* C10 witness: complementary unit clauses resolve to the empty clause.
C10_Witness ==
    /\ out.op = "resolve"
    /\ ~heap[1].valid /\ ~heap[2].valid
    /\ len(heap[1]) = 1
    /\ Cardinality(Conflicts(heap[1], heap[2])) = 1
    /\ out.ab = {EmptyClause}


\* ------------------------------------------------ claims, MazeKnowledgeBase
\* truth assignments to the propositions
Assignments == [Props -> BOOLEAN]

\* assignment m satisfies clause c
Sat(m, c) == c.valid \/ \E p \in DOMAIN c.props : m[p] = c.props[p]

\* every assignment that satisfies all clauses of K satisfies q
Entails(K, q) == \A m \in Assignments : (\A c \in K : Sat(m, c)) => Sat(m, q)

Consistent(K) == \E m \in Assignments : \A c \in K : Sat(m, c)

NoTautology(K) == \A c \in K : ~c.valid

\* every stored entry still carries the hash of its object: no stored clause
\* was changed after it was told
Unspoiled == \A e \in kb : e.h = hash(Val(heap, e.r))

\* C1: soundness of ask: over a knowledge base of non-tautology clauses, if
\* ask(query) returns True then every truth assignment that satisfies all
\* stored clauses also satisfies the query.
C1_AskSound ==
    (pc = "done" /\ res = "True" /\ NoTautology(askkb)) => Entails(askkb, askq)

\* C1 witness: ask returned True over two stored clauses for a unit query
\* that is not itself stored.
C1_Witness ==
    /\ pc = "done"
    /\ res = "True"
    /\ NoTautology(askkb)
    /\ Consistent(askkb)
    /\ Cardinality(askkb) = 2
    /\ len(askq) = 1
    /\ ~askq.valid
    /\ askq \notin askkb

\* C2: completeness of ask on single-proposition queries: over a consistent
\* knowledge base of non-tautology clauses, if the knowledge base entails a
\* unit query then ask(query) returns True.
C2_AskCompleteOnUnits ==
    (/\ pc = "done"
     /\ NoTautology(askkb)
     /\ Consistent(askkb)
     /\ ~askq.valid
     /\ len(askq) = 1
     /\ Entails(askkb, askq)) => res = "True"

\* C2 holds of the calls whose query is an object of its own, made on a
\* knowledge base none of whose stored objects was changed since it was told.
C2_FreshQueryComplete ==
    (/\ pc = "done"
     /\ query = Ref(0)
     /\ Unspoiled
     /\ NoTautology(askkb)
     /\ Consistent(askkb)
     /\ ~askq.valid
     /\ len(askq) = 1
     /\ Entails(askkb, askq)) => res = "True"

\* C3: ask decides entailment for query clauses with two or more
\* propositions: over a consistent knowledge base, ask(query) returns True
\* whenever the knowledge base entails the disjunction (here: even when the
\* query is an object of its own and no stored object was ever changed).
C3_AskCompleteOnDisjunctions ==
    (/\ pc = "done"
     /\ query = Ref(0)
     /\ Unspoiled
     /\ NoTautology(askkb)
     /\ Consistent(askkb)
     /\ ~askq.valid
     /\ len(askq) >= 2
     /\ Entails(askkb, askq)) => res = "True"

\* C4: ask terminates: the resolution loop returns True or False after
\* finitely many passes: each full
\* pass that does not return adds at least one clause not yet in the working
\* set, which holds at most one entry per clause over the finite vocabulary,
\* and a pass that adds none returns (False when no empty clause was found
\* and every resolvent is already in the working set).
C4_AskTerminates ==
    /\ [](pc = "ask" =>
            /\ \A e1, e2 \in work : e1.h = e2.h => e1 = e2
            /\ Cardinality(work) <= 2 * 3^NumProps)
    /\ [][pc = "ask" =>
            /\ pc' = "ask" => (work \subseteq work' /\ work' # work)
            /\ work' = work => (pc' = "done" /\ res' \in {"True", "False"})
            /\ res' = "False" =>
                 /\ EmptyClause \notin newc'
                 /\ \A c \in newc' : \E e \in work : e.h = hash(c)
         ]_vars

\* C4 witness: ask returned False after passes that added resolvents.
C4_Witness ==
    /\ pc = "done"
    /\ res = "False"
    /\ \E e \in work : e.r.o = Anon

\* C6: ask leaves the knowledge base unchanged: the stored clauses are after
\* the call what they were before it, also when the query is the very object
\* that was passed to tell; tell(c) followed by ask(c) returns True for a
\* unit clause c, and c is still stored afterwards.
C6_AskLeavesKB ==
    pc = "done" =>
        /\ Values(kb, heap) = askkb
        /\ (/\ query.o >= 1
            /\ len(askq) = 1
            /\ ~askq.valid
            /\ askq \in askkb) => (res = "True" /\ askq \in Values(kb, heap))

\* ------------------------------------------ MazeKnowledgeBase.simplify_self
\* two entries of Python sets that a lookup takes for the same element
SameElement(e, f, H) ==
    e.h = f.h /\ (e.r = f.r \/ eq(Val(H, e.r), Val(H, f.r)))

\* S | T
SetUnion(S, T, H) == S \cup {f \in T : \A e \in S : ~SameElement(e, f, H)}

\* S - T
SetDifference(S, T, H) == {e \in S : \A f \in T : ~SameElement(e, f, H)}

\* a set of clause objects nobody else holds, built from clause values
FreshSet(C) == {[h |-> hash(c), r |-> AnonRef(c)] : c \in C}

\* kb.tell(MazeClause(lst)) with a clause object the caller does not keep
tell(S, H, c) == SetAdd(S, H, AnonRef(c))

\* sani_clause = MazeClause([(("P", loc), is_pit)])
sani_clause(loc, is_pit) == MazeClause(<<<<loc, is_pit>>>>)

\* what get_prop returns for a proposition stored with polarity b
PyBool(b) == IF b THEN "True" ELSE "False"

\* get_simplified_clauses removing a clause that holds loc with the polarity
\* opposite to the known one
get_simplified_clausesOpposite(S, H, loc, is_pit) ==
    LET sani == sani_clause(loc, is_pit)
        multi == {e \in S : len(Val(H, e.r)) # 1}
        stops == {e \in multi : get_prop(Val(H, e.r), loc) = PyBool(~is_pit)}
        gives == {e \in multi \ stops : resolve(Val(H, e.r), sani) # {}}
        to_add(met) == FreshSet(UNION {resolve(Val(H, e.r), sani) : e \in met})
        to_rem(e) == {[h |-> hash(Val(H, e.r)), r |-> e.r]}
    IN  IF stops = {}
          THEN {SetUnion(S, to_add(gives), H)}
          ELSE {SetDifference(SetUnion(S, to_add(met), H), to_rem(e), H) :
                  met \in SUBSET gives, e \in stops}

\* get_simplified_clauses(clauses, loc, is_pit): the sets it can return, one
\* for every iteration order of `for clause in clauses`.  A unit clause is
\* skipped (continue); the first clause met that holds loc with the known
\* polarity is put in to_rem and ENDS the loop (break); every other clause
\* met before that adds resolve(clause, sani_clause) to to_add.  So a run of
\* the loop is fixed by the clause it stops at (if any clause stops it) and
\* by the set of resolving clauses met before that one.
get_simplified_clauses(S, H, loc, is_pit) ==
    LET sani == sani_clause(loc, is_pit)
        multi == {e \in S : len(Val(H, e.r)) # 1}
        stops == {e \in multi : get_prop(Val(H, e.r), loc) = PyBool(is_pit)}
        gives == {e \in multi \ stops : resolve(Val(H, e.r), sani) # {}}
        to_add(met) == FreshSet(UNION {resolve(Val(H, e.r), sani) : e \in met})
        to_rem(e) == {[h |-> hash(Val(H, e.r)), r |-> e.r]}
    IN  IF stops = {}
          THEN {SetUnion(S, to_add(gives), H)}
          ELSE {SetDifference(SetUnion(S, to_add(met), H), to_rem(e), H) :
                  met \in SUBSET gives, e \in stops}

\* the propositions of the clauses of S that are not unit clauses
MultiProps(S, H) ==
    UNION {DOMAIN Val(H, e.r).props : e \in {x \in S : len(Val(H, x.r)) # 1}}

RECURSIVE SimplifyLocs(_, _, _, _)
\* for loc in known_pits | known_safe, over the locations todo, in every
\* iteration order of that set
SimplifyLocs(S, H, todo, known_pits) ==
    IF todo = {} THEN {S}
    ELSE UNION {UNION {SimplifyLocs(S2, H, todo \ {loc}, known_pits) :
                         S2 \in get_simplified_clauses(S, H, loc, loc \in known_pits)} :
                  loc \in todo}

\* simplify_from_known_locs: the sets it can return.  A location no
\* non-unit clause mentions leaves the set as it is, whenever it is processed
\* (resolvents mention no new proposition), so only the others are ordered.
simplify_from_known_locs(S, H, known_pits, known_safe) ==
    SimplifyLocs(S, H, (known_pits \cup known_safe) \cap MultiProps(S, H), known_pits)


\* the lists of CNF_to_KB with the last clause of case 2 asking for a pit
\* instead of forbidding three
CNFListsNoUpperBound(t, possible_pits_n) ==
    IF possible_pits_n = 2
      THEN << <<<<t[1], TRUE>>, <<t[2], TRUE>>>>,
              <<<<t[1], TRUE>>, <<t[3], TRUE>>>>,
              <<<<t[2], TRUE>>, <<t[3], TRUE>>>>,
              <<<<t[1], TRUE>>, <<t[2], TRUE>>, <<t[3], TRUE>>>> >>
    ELSE IF possible_pits_n = 1
      THEN << <<<<t[1], FALSE>>, <<t[2], FALSE>>>>,
              <<<<t[1], FALSE>>, <<t[3], FALSE>>>>,
              <<<<t[2], FALSE>>, <<t[3], FALSE>>>>,
              <<<<t[1], TRUE>>, <<t[2], TRUE>>, <<t[3], TRUE>>>> >>
    ELSE <<>>

\* ------------------------------------------------------ MazeAgent.CNF_to_KB
\* the four lists CNF_to_KB builds clauses from, for tiles_to_check = t
CNFLists(t, possible_pits_n) ==
    IF possible_pits_n = 2
      THEN << <<<<t[1], TRUE>>, <<t[2], TRUE>>>>,
              <<<<t[1], TRUE>>, <<t[3], TRUE>>>>,
              <<<<t[2], TRUE>>, <<t[3], TRUE>>>>,
              <<<<t[1], FALSE>>, <<t[2], FALSE>>, <<t[3], FALSE>>>> >>
    ELSE IF possible_pits_n = 1
      THEN << <<<<t[1], FALSE>>, <<t[2], FALSE>>>>,
              <<<<t[1], FALSE>>, <<t[3], FALSE>>>>,
              <<<<t[2], FALSE>>, <<t[3], FALSE>>>>,
              <<<<t[1], TRUE>>, <<t[2], TRUE>>, <<t[3], TRUE>>>> >>
    ELSE <<>>

RECURSIVE TellAll(_, _, _, _)
\* self.kb.tell(MazeClause(lists[i])), self.kb.tell(MazeClause(lists[i+1])), ...
TellAll(S, H, lists, i) ==
    IF i > Len(lists) THEN S
    ELSE TellAll(tell(S, H, MazeClause(lists[i])), H, lists, i + 1)

\* CNF_to_KB(tiles_to_check, possible_pits): the stored set afterwards
CNF_to_KB(S, H, t, possible_pits_n) == TellAll(S, H, CNFLists(t, possible_pits_n), 1)

\* ------------------------------------------- MazeKnowledgeBase.ask, whole
RECURSIVE AskLoop(_, _, _)
\* ask's while loop run to its return: "True" or "False"
AskLoop(W, N, H) ==
    LET R == PassResolvents(W, H)
        N2 == N \cup R
    IN  IF EmptyClause \in R THEN "True"
        ELSE IF IsSubset(N2, W, H) THEN "False"
        ELSE AskLoop(SetUpdate(W, N2, H), N2, H)

RECURSIVE FilterClosure(_, _, _, _)
\* the while loop of filter_clauses on a set whose entries all carry the hash
\* of their current value: no remove fails, and every scan order ends with
\* the same necessary_clauses, so the clauses sharing a proposition with
\* helper_clause are moved together
FilterClosure(pot, nec, help, H) ==
    LET hit == {e \in pot : (DOMAIN Val(H, e.r).props) \cap help # {}}
    IN  IF hit = {} THEN nec
        ELSE FilterClosure(pot \ hit, nec \cup hit,
                           help \cup UNION {DOMAIN Val(H, e.r).props : e \in hit}, H)

\* kb.ask(MazeClause(...)) with a query object of its own, of value c, on a
\* knowledge base no stored object of which was changed after it was told
ask(S, H, c) ==
    LET H0 == [H EXCEPT ![0] = c]
        nec == FilterClosure(S, {}, DOMAIN c.props, H0)
        inv == invert_call(H0, Ref(0))
    IN  AskLoop(SetAdd(nec, inv.heap, inv.ret), {}, inv.heap)

\* ------------------------------------------------- simplify state machine
\* A caller tells clauses to a new knowledge base, calls simplify_self, once
\* or twice with the same known sets, and asks about one proposition.

\* the lists of three different propositions
Triples == {t \in [1..3 -> Props] : t[1] # t[2] /\ t[1] # t[3] /\ t[2] # t[3]}

\* kb.tell(MazeClause(lst))
TellFresh ==
    /\ pc = "idle"
    /\ Cardinality(kb) < MaxObjs
    /\ \E lst \in PropLists(MaxWidth) : kb' = tell(kb, heap, MazeClause(lst))
    /\ UNCHANGED <<heap, pc, query, work, newc, res, askq, askkb, out>>
    /\ UNCHANGED avars

\* CNF_to_KB(t, k) on a knowledge base that holds nothing yet
TellCNF ==
    /\ pc = "idle"
    /\ kb = {}
    /\ \E t \in Triples, k \in 1..2 :
         /\ kb' = CNF_to_KB(kb, heap, t, k)
         /\ out' = [op |-> "CNF_to_KB", tiles_to_check |-> t, possible_pits |-> k]
    /\ UNCHANGED <<heap, pc, query, work, newc, res, askq, askkb>>
    /\ UNCHANGED avars

\* kb.simplify_self(known_pits, known_safe)
SimplifySelf ==
    /\ pc = "idle"
    /\ pc' = "simplified"
    /\ \E known_pits \in SUBSET Props, known_safe \in SUBSET Props :
         /\ kb' \in simplify_from_known_locs(kb, heap, known_pits, known_safe)
         /\ out' = [op |-> "simplify", known_pits |-> known_pits,
                    known_safe |-> known_safe, before |-> kb, once |-> {}, n |-> 1]
    /\ UNCHANGED <<heap, query, work, newc, res, askq, askkb>>
    /\ UNCHANGED avars

\* the same call once more
SimplifyAgain ==
    /\ pc = "simplified"
    /\ out.n = 1
    /\ kb' \in simplify_from_known_locs(kb, heap, out.known_pits, out.known_safe)
    /\ out' = [out EXCEPT !.once = kb, !.n = 2]
    /\ UNCHANGED <<heap, pc, query, work, newc, res, askq, askkb>>
    /\ UNCHANGED avars

\* kb.ask(MazeClause([(("P", loc), v)])) after simplify_self, run to its return
AskUnit ==
    /\ pc = "simplified"
    /\ pc' = "asked"
    /\ \E loc \in Props, v \in BOOLEAN :
         /\ askq' = MazeClause(<<<<loc, v>>>>)
         /\ res' = ask(kb, heap, MazeClause(<<<<loc, v>>>>))
    /\ UNCHANGED <<heap, kb, query, work, newc, askkb, out>>
    /\ UNCHANGED avars

SimplifyNext ==
    \/ TellFresh
    \/ TellCNF
    \/ SimplifySelf
    \/ SimplifyAgain
    \/ AskUnit

SpecSimplify == KBInit /\ [][SimplifyNext]_vars



\* ----------------------------------------------------------- Environment
\* The maze is a grid of GridW x GridH tiles; a location (x, y) is numbered
\* (y - 1) * GridW + x, and the proposition ("P", loc) carries that number.
Cells == 1..(GridW * GridH)

X(c) == ((c - 1) % GridW) + 1

Y(c) == ((c - 1) \div GridW) + 1

Abs(n) == IF n < 0 THEN -n ELSE n

\* abs(a[0] - b[0]) + abs(a[1] - b[1])
Manhattan(a, b) == Abs(X(a) - X(b)) + Abs(Y(a) - Y(b))

\* env.get_cardinal_locs(loc, 1)
get_cardinal_locs(loc) == {c \in Cells : Manhattan(c, loc) = 1}

\* the tile type the environment reports for a location
TileAt(e, loc) ==
    LET n == Cardinality(get_cardinal_locs(loc) \cap e.pits)
    IN  IF loc \in e.pits THEN "P"
        ELSE IF n = 0 THEN "."
        ELSE IF n = 1 THEN "1"
        ELSE IF n = 2 THEN "2"
        ELSE IF n = 3 THEN "3"
        ELSE "4"

\* Constants.WRN_BLOCKS
WRN_BLOCKS == {"0", "1", "2", "3", "4"}

\* env.get_frontier_locs(): the unvisited tiles next to a visited one
get_frontier_locs(e) ==
    {c \in Cells \ e.explored : get_cardinal_locs(c) \cap e.explored # {}}

\* the tiles with four cardinal neighbours
Interior == {c \in Cells : X(c) \in 2..(GridW - 1) /\ Y(c) \in 2..(GridH - 1)}

\* the mazes: the goal is the corner tile (1, 1), the player starts on an
\* interior tile, at most MaxPits of the other tiles are pits
Mazes ==
    {m \in [goal : {c \in Cells : X(c) = 1 /\ Y(c) = 1}, start : Interior,
            pits : {q \in SUBSET Cells : Cardinality(q) <= MaxPits}] :
        m.goal \notin m.pits /\ m.start \notin m.pits}

\* the mazes crossed along the middle row: the goal in the middle of the left
\* side, the start in the middle of the right side, a pit fewer
MazesAcross ==
    {m \in [goal : {c \in Cells : X(c) = 1 /\ Y(c) = (GridH + 1) \div 2},
            start : {c \in Cells : X(c) = GridW /\ Y(c) = (GridH + 1) \div 2},
            pits : {q \in SUBSET Cells : Cardinality(q) < MaxPits}] :
        m.goal \notin m.pits /\ m.start \notin m.pits}

\* the mazes crossed from corner to corner: the start at (1,1), the goal in
\* the opposite corner
MazesDiagonal ==
    {m \in [goal : {c \in Cells : X(c) = GridW /\ Y(c) = GridH},
            start : {c \in Cells : X(c) = 1 /\ Y(c) = 1},
            pits : {q \in SUBSET Cells : Cardinality(q) <= MaxPits}] :
        m.goal \notin m.pits /\ m.start \notin m.pits}

\* the environment of maze m before the first step; it asks the agent for
\* limit moves at most
NewEnv(m, limit) == [goal |-> m.goal, start |-> m.start, pits |-> m.pits,
                     player |-> m.start, explored |-> {m.start}, steps |-> 0,
                     limit |-> limit, slow |-> FALSE]

\* ------------------------------------------------------------- MazeAgent
\* The agent's attributes as a record [kb, safe, pit, poss].  The clause
\* objects the agent tells are held by nobody else, and ask runs in a child
\* process on a copy, so no stored object ever changes.

\* MazeClause([((Constants.PIT_BLOCK, loc), v)])
Unit(loc, v) == MazeClause(<<<<loc, v>>>>)

\* ask_with_timeout(clause, ASK_TIMEOUT): what ask returns in the child
\* process, or None when the process is terminated or its result is not read;
\* on a slow machine the child never ends within ASK_TIMEOUT
ask_with_timeout(S, H, c) ==
    IF env.slow THEN {"None"} ELSE {ask(S, H, c), "None"}

\* is_safe_tile without the `if no_pit is None` branch of lines 331-335: a
\* timed-out first ask is followed by the second ask
is_safe_tileAsksAgain(A, H, loc) ==
    IF loc \in A.safe THEN {[ret |-> "True", ag |-> A, asks |-> <<>>]}
    ELSE IF loc \in A.pit THEN {[ret |-> "False", ag |-> A, asks |-> <<>>]}
    ELSE UNION {
        LET A1 == [A EXCEPT !.kb = S2]
            unknown(asks) == [ret |-> "None",
                              ag |-> [A1 EXCEPT !.poss = @ \cup {loc}],
                              asks |-> asks]
        IN  UNION {
              IF no_pit = "True"
                THEN {[ret |-> "True",
                       ag |-> [A1 EXCEPT !.safe = @ \cup {loc},
                                         !.kb = tell(S2, H, Unit(loc, FALSE))],
                       asks |-> <<no_pit>>]}
              ELSE {IF is_pit = "True"
                      THEN [ret |-> "False",
                            ag |-> [A1 EXCEPT !.pit = @ \cup {loc},
                                              !.kb = tell(S2, H, Unit(loc, TRUE))],
                            asks |-> <<no_pit, is_pit>>]
                      ELSE unknown(<<no_pit, is_pit>>)
                    : is_pit \in ask_with_timeout(S2, H, Unit(loc, TRUE))}
              : no_pit \in ask_with_timeout(S2, H, Unit(loc, FALSE))}
        : S2 \in simplify_from_known_locs(A.kb, H, A.pit, A.safe)}

\* is_safe_tile(loc): the possible [ret, ag, asks], asks being the results of
\* the calls of ask_with_timeout in order
is_safe_tile(A, H, loc) ==
    IF loc \in A.safe THEN {[ret |-> "True", ag |-> A, asks |-> <<>>]}
    ELSE IF loc \in A.pit THEN {[ret |-> "False", ag |-> A, asks |-> <<>>]}
    ELSE UNION {
        LET A1 == [A EXCEPT !.kb = S2]
            unknown(asks) == [ret |-> "None",
                              ag |-> [A1 EXCEPT !.poss = @ \cup {loc}],
                              asks |-> asks]
        IN  UNION {
              IF no_pit = "True"
                THEN {[ret |-> "True",
                       ag |-> [A1 EXCEPT !.safe = @ \cup {loc},
                                         !.kb = tell(S2, H, Unit(loc, FALSE))],
                       asks |-> <<no_pit>>]}
              ELSE IF no_pit = "None"
                THEN {unknown(<<no_pit>>)}
              ELSE {IF is_pit = "True"
                      THEN [ret |-> "False",
                            ag |-> [A1 EXCEPT !.pit = @ \cup {loc},
                                              !.kb = tell(S2, H, Unit(loc, TRUE))],
                            asks |-> <<no_pit, is_pit>>]
                      ELSE unknown(<<no_pit, is_pit>>)
                    : is_pit \in ask_with_timeout(S2, H, Unit(loc, TRUE))}
              : no_pit \in ask_with_timeout(S2, H, Unit(loc, FALSE))}
        : S2 \in simplify_from_known_locs(A.kb, H, A.pit, A.safe)}

\* for tile in tiles: self.pit_tiles.add(tile); self.kb.tell(Pit(tile))
RECURSIVE MarkPits(_, _, _)
MarkPits(A, H, tiles) ==
    IF tiles = {} THEN A
    ELSE LET t == CHOOSE x \in tiles : TRUE
         IN  MarkPits([A EXCEPT !.pit = @ \cup {t},
                                !.kb = tell(@, H, Unit(t, TRUE))], H, tiles \ {t})

\* for neighbor in tiles: self.safe_tiles.add(neighbor); self.kb.tell(~Pit(neighbor))
RECURSIVE MarkSafe(_, _, _)
MarkSafe(A, H, tiles) ==
    IF tiles = {} THEN A
    ELSE LET t == CHOOSE x \in tiles : TRUE
         IN  MarkSafe([A EXCEPT !.safe = @ \cup {t},
                                !.kb = tell(@, H, Unit(t, FALSE))], H, tiles \ {t})

\* log with event e at its end, a repeated event written once
Logged(log, e) ==
    IF log # <<>> /\ log[Len(log)] = e THEN log ELSE Append(log, e)

\* the log after is_safe_tile(loc): the lookups of lines 309-314 answer, or
\* simplify_self runs (line 320) and then the first ask (line 323)
LoggedAsk(A, log, loc) ==
    IF loc \in A.safe \cup A.pit THEN log
    ELSE Logged(Logged(log, "simplify"), "ask")

\* the log after a fact is told for each of tiles
LoggedTell(log, tiles) == IF tiles = {} THEN log ELSE Logged(log, "tell")

\* the log after lines 227-229
LoggedCNF(log, adjacent_tiles) ==
    IF Cardinality(adjacent_tiles) = 3 THEN Logged(log, "tell") ELSE log

\* is_safe_tile(loc): the possible [ret, ag]
Classify(A, H, loc) == {[ret |-> r.ret, ag |-> r.ag] : r \in is_safe_tile(A, H, loc)}

\* list(adjacent_tiles) for a set of three tiles; CNF_to_KB tells the same
\* four clauses for every order of the list
ListOf3(tiles) ==
    CHOOSE t \in [1..3 -> tiles] : t[1] < t[2] /\ t[2] < t[3]

\* lines 227-229 with the encoding of one pit more
TellCNFOneMore(A, H, adjacent_tiles, num_pits) ==
    IF Cardinality(adjacent_tiles) = 3
      THEN [A EXCEPT !.kb = CNF_to_KB(@, H, ListOf3(adjacent_tiles), num_pits + 1)]
      ELSE A

\* infer_adjacent_pits, lines 227-229
TellCNFIf3(A, H, adjacent_tiles, num_pits) ==
    IF Cardinality(adjacent_tiles) = 3
      THEN [A EXCEPT !.kb = CNF_to_KB(@, H, ListOf3(adjacent_tiles), num_pits)]
      ELSE A

\* --------------------------------------- MazeAgent.find_best_next_move
\* the priority with the move cost counted whole
Priority2Whole(goal, current_loc, possible_move, poss, pit) ==
    2 * Manhattan(goal, possible_move) + 2 * Manhattan(current_loc, possible_move)
      + (IF possible_move \in poss THEN 2 * 4 ELSE 0)
      + (IF possible_move \in pit THEN 2 * 20 ELSE 0)

\* priority, lines 258-270, doubled to stay among the integers
\* (move_cost * 0.5 becomes move_cost, the penalties 4 and 20 become 8 and 40)
Priority2(goal, current_loc, possible_move, poss, pit) ==
    2 * Manhattan(goal, possible_move) + Manhattan(current_loc, possible_move)
      + (IF possible_move \in poss THEN 2 * 4 ELSE 0)
      + (IF possible_move \in pit THEN 2 * 20 ELSE 0)

\* (priority, (x, y)) < (priority, (x, y)) as Python compares tuples
ItemLess(a, b) ==
    \/ a.prio < b.prio
    \/ /\ a.prio = b.prio
       /\ \/ X(a.loc) < X(b.loc)
          \/ X(a.loc) = X(b.loc) /\ Y(a.loc) < Y(b.loc)

RECURSIVE Perms(_)
\* the orders in which a set can be iterated
Perms(S) ==
    IF S = {} THEN {<<>>}
    ELSE UNION {{<<x>> \o q : q \in Perms(S \ {x})} : x \in S}

RECURSIVE SiftDown(_, _, _, _)
\* heapq._siftdown(heap, startpos, pos) carrying newitem; positions from 0
SiftDown(h, startpos, pos, newitem) ==
    IF pos > startpos /\ ItemLess(newitem, h[((pos - 1) \div 2) + 1])
      THEN SiftDown([h EXCEPT ![pos + 1] = h[((pos - 1) \div 2) + 1]],
                    startpos, (pos - 1) \div 2, newitem)
      ELSE [h EXCEPT ![pos + 1] = newitem]

RECURSIVE SiftUp(_, _, _, _)
\* heapq._siftup(heap, pos): the smaller child is moved up until a leaf is
\* reached, then newitem is sifted down from there
SiftUp(h, startpos, pos, newitem) ==
    LET childpos == 2 * pos + 1
        rightpos == childpos + 1
        c == IF rightpos < Len(h) /\ ~ItemLess(h[childpos + 1], h[rightpos + 1])
               THEN rightpos ELSE childpos
    IN  IF childpos < Len(h)
          THEN SiftUp([h EXCEPT ![pos + 1] = h[c + 1]], startpos, c, newitem)
          ELSE SiftDown(h, startpos, pos, newitem)

RECURSIVE HeapifyFrom(_, _)
\* for i in reversed(range(n // 2)): _siftup(x, i), from position i down
HeapifyFrom(h, i) ==
    IF i < 0 THEN h ELSE HeapifyFrom(SiftUp(h, i, i, h[i + 1]), i - 1)

\* heapq.heapify(priority_frontier)
heapify(h) == HeapifyFrom(h, (Len(h) \div 2) - 1)

\* find_best_next_move, lines 249-276, when the goal is not among the moves:
\* the lists priority_frontier can be after heapify, one for every iteration
\* order of possible_moves
priority_frontiers(A, goal, possible_moves, current_loc) ==
    {heapify([k \in 1..Len(q) |->
                [prio |-> Priority2(goal, current_loc, q[k], A.poss, A.pit),
                 loc |-> q[k]]]) : q \in Perms(possible_moves)}

\* ------------------------------------------------ tautology state machine
\* A caller tells clauses to a new knowledge base, tautologies among them, and
\* asks it one query.  out.twin is the knowledge base of a second caller who
\* tells the same clauses in the same order but leaves the tautologies out.

\* lists that hold a proposition with both polarities and one more literal:
\* P v ~P v Q
TautologyLists ==
    {<<<<t[1], TRUE>>, <<t[1], FALSE>>, <<t[2], v>>>> :
        t \in {x \in Props \X Props : x[1] # x[2]}, v \in BOOLEAN}

\* the second caller's knowledge base
Twin == IF out.op \in {"tell", "asked"} THEN out.twin ELSE {}

\* kb.tell(MazeClause(lst)), by the second caller too unless the clause is a
\* tautology
TellTo(lst) ==
    /\ pc = "idle"
    /\ Cardinality(kb) < MaxObjs
    /\ kb' = tell(kb, heap, MazeClause(lst))
    /\ out' = [op |-> "tell",
                twin |-> IF MazeClause(lst).valid THEN Twin
                         ELSE tell(Twin, heap, MazeClause(lst))]
    /\ UNCHANGED <<heap, pc, query, work, newc, res, askq, askkb>>
    /\ UNCHANGED avars

\* kb.tell of a clause without a tautology
TellPlain == \E lst \in PropLists(MaxWidth) : ~MazeClause(lst).valid /\ TellTo(lst)

\* kb.tell of a tautology, with or without further propositions
TellTautology ==
    \E lst \in PropLists(MaxWidth) \cup TautologyLists :
        MazeClause(lst).valid /\ TellTo(lst)

\* kb.ask(MazeClause(lst)), run to its return
AskWhole ==
    /\ pc = "idle"
    /\ pc' = "asked"
    /\ \E lst \in PropLists(MaxWidth) :
         /\ askq' = MazeClause(lst)
         /\ res' = ask(kb, heap, MazeClause(lst))
    /\ out' = [op |-> "asked", twin |-> Twin]
    /\ UNCHANGED <<heap, kb, query, work, newc, askkb>>
    /\ UNCHANGED avars

TautologyNext ==
    \/ TellPlain
    \/ TellTautology
    \/ AskWhole

SpecTautology == KBInit /\ [][TautologyNext]_vars

\* ---------------------------------------------------- agent state machine
\* An Environment builds the agent on a maze and then, MaxSteps times at
\* most, hands it the perception of the player's tile, lets it think and
\* moves the player to the location it returns.  pc is the agent's position:
\*   "new"     no agent yet          "ready"   between two calls of think
\*   "infer1"  in the loop of infer_adjacent_pits, lines 199-203
\*   "infer2"  in the loop of infer_adjacent_pits, lines 219-224
\*   "find"    at the call of find_best_next_move, line 147
\*   "select"  in the loop of find_best_next_move, lines 279-283
\*   "goal"    the player is on the goal   "IndexError"  think has raised

\* [(("P", loc), False) for loc in tiles], as a list
RECURSIVE NoPitList(_)
NoPitList(tiles) ==
    IF tiles = {} THEN <<>>
    ELSE LET t == CHOOSE x \in tiles : \A y \in tiles : x <= y
         IN  <<<<t, FALSE>>>> \o NoPitList(tiles \ {t})

\* the agent's attributes, as the record the operators above work on
Agent == [kb |-> kb, safe |-> safe_tiles, pit |-> pit_tiles, poss |-> possible_pits]

\* the attributes take the values of the record A
SetAgent(A) ==
    /\ kb' = A.kb
    /\ safe_tiles' = A.safe
    /\ pit_tiles' = A.pit
    /\ possible_pits' = A.poss

\* one of the Environments E; its agent is not built yet
AgentInitOn(E) ==
    /\ heap = [o \in {0} |-> EmptyClause]
    /\ kb = {}
    /\ pc = "new"
    /\ query = Ref(0)
    /\ work = {}
    /\ newc = {}
    /\ res = "none"
    /\ askq = EmptyClause
    /\ askkb = {}
    /\ out = [op |-> "none"]
    /\ safe_tiles = {}
    /\ pit_tiles = {}
    /\ possible_pits = {}
    /\ frame = NoFrame
    /\ step = NoStep
    /\ env \in E

\* an Environment that has no unvisited tile left when it builds its agent:
\* its frontier is empty
Exhausted(m) == [NewEnv(m, MaxSteps) EXCEPT !.explored = Cells]

AgentInit ==
    AgentInitOn({NewEnv(m, MaxSteps) : m \in Mazes} \cup {Exhausted(m) : m \in Mazes})

\* one move more on the mazes crossed along the middle row
AcrossInit == AgentInitOn({NewEnv(m, MaxSteps + 1) : m \in MazesAcross})

\* the same Environments on a machine where every ask exceeds ASK_TIMEOUT
SlowInit ==
    AgentInitOn({[NewEnv(m, MaxSteps + 1) EXCEPT !.slow = TRUE] :
                    m \in Mazes \cup MazesAcross \cup MazesDiagonal})

\* think returns move and the environment moves the player there
Moved(move, how) ==
    /\ env' = [env EXCEPT !.player = move, !.explored = @ \cup {move},
                          !.steps = @ + 1]
    /\ pc' = IF move = env.goal THEN "goal" ELSE "ready"
    /\ frame' = NoFrame
    /\ out' = [op |-> "think", how |-> how, move |-> move,
                possible_moves |-> get_frontier_locs(env)]

\* find_best_next_move without the early return of lines 253-255
FindBestNoEarlyReturn ==
    LET possible_moves == get_frontier_locs(env)
    IN  IF possible_moves = {}
          THEN /\ pc' = "IndexError"
               /\ out' = [op |-> "think", how |-> "error", move |-> 0,
                           possible_moves |-> {}]
               /\ frame' = NoFrame
               /\ UNCHANGED env
        ELSE /\ \E pf \in priority_frontiers(Agent, env.goal, possible_moves,
                                              env.player) :
                  frame' = [NoFrame EXCEPT !.priority_frontier = pf, !.i = 1]
             /\ pc' = "select"
             /\ UNCHANGED <<env, out>>

\* find_best_next_move with a guard for the empty list: the agent stays
\* where it is
FindBestStays ==
    LET possible_moves == get_frontier_locs(env)
    IN  IF env.goal \in possible_moves
          THEN Moved(env.goal, "goal")
        ELSE IF possible_moves = {}
          THEN Moved(env.player, "fallback")
        ELSE /\ \E pf \in priority_frontiers(Agent, env.goal, possible_moves,
                                              env.player) :
                  frame' = [NoFrame EXCEPT !.priority_frontier = pf, !.i = 1]
             /\ pc' = "select"
             /\ UNCHANGED <<env, out>>

\* find_best_next_move(env.get_frontier_locs(), current_loc), lines 249-276:
\* it returns the goal, fails on an empty list (line 286), or has
\* priority_frontier heapified
FindBest ==
    LET possible_moves == get_frontier_locs(env)
    IN  IF env.goal \in possible_moves
          THEN Moved(env.goal, "goal")
        ELSE IF possible_moves = {}
          THEN /\ pc' = "IndexError"
               /\ out' = [op |-> "think", how |-> "error", move |-> 0,
                           possible_moves |-> {}]
               /\ frame' = NoFrame
               /\ UNCHANGED env
        ELSE /\ \E pf \in priority_frontiers(Agent, env.goal, possible_moves,
                                              env.player) :
                  frame' = [NoFrame EXCEPT !.priority_frontier = pf, !.i = 1]
             /\ pc' = "select"
             /\ UNCHANGED <<env, out>>

\* the perception is processed: add_starting_rules returns to the
\* Environment, think goes on to find_best_next_move
Finish(A, caller) ==
    /\ SetAgent(A)
    /\ pc' = IF caller = "init" THEN "ready" ELSE "find"
    /\ frame' = NoFrame
    /\ UNCHANGED <<env, out>>

\* the history of the running call goes on with log, or ends with the call
KeepStep(log) ==
    step' = IF pc' \in {"infer1", "infer2", "find", "select"}
              THEN [step EXCEPT !.log = log] ELSE NoStep

\* on_warning_tile(current_tile, adjacent_tiles)
OnWarningTile(A, H, current_tile, adjacent_tiles, caller) ==
    IF current_tile = "4" THEN Finish(MarkPits(A, H, adjacent_tiles), caller)
    ELSE IF current_tile = "3"
      THEN Finish(MarkPits(A, H, adjacent_tiles \ A.safe), caller)
    ELSE IF current_tile \in {"1", "2"}
      THEN /\ SetAgent(A)
           /\ pc' = "infer1"
           /\ frame' = [NoFrame EXCEPT !.caller = caller,
                                       !.todo = adjacent_tiles,
                                       !.copy = adjacent_tiles,
                                       !.adj = adjacent_tiles,
                                       !.num_pits = IF current_tile = "2" THEN 2 ELSE 1]
           /\ UNCHANGED <<env, out>>
    ELSE Finish(A, caller)

\* MazeAgent(env, perception): __init__ and add_starting_rules
Construct ==
    /\ pc = "new"
    /\ LET paths_to_goal == get_cardinal_locs(env.goal)
           tile == TileAt(env, env.start)
           adjacent == get_cardinal_locs(env.start)
           A0 == [kb |-> tell({}, heap, MazeClause(NoPitList(paths_to_goal))),
                  safe |-> {env.start, env.goal}, pit |-> {}, poss |-> {}]
           A1 == IF Cardinality(paths_to_goal) = 1
                   THEN [A0 EXCEPT !.safe = @ \cup paths_to_goal] ELSE A0
           A2 == IF tile \in {".", "0"}
                   THEN [A1 EXCEPT !.safe = @ \cup adjacent] ELSE A1
       IN  IF tile \in WRN_BLOCKS
             THEN OnWarningTile(A2, heap, tile, adjacent, "init")
             ELSE Finish(A2, "init")
    /\ UNCHANGED <<heap, query, work, newc, res, askq, askkb>>
    /\ UNCHANGED step

\* think(perception), lines 122-147
Think ==
    /\ pc = "ready"
    /\ env.steps < env.limit
    /\ LET current_loc == env.player
           current_tile == TileAt(env, current_loc)
           adjacent_tiles == get_cardinal_locs(current_loc)
           A1 == [Agent EXCEPT !.kb = tell(@, heap, Unit(current_loc, current_tile = "P"))]
           A2 == IF current_tile \in {".", "0"}
                   THEN MarkSafe(A1, heap, adjacent_tiles) ELSE A1
       IN  IF current_tile \in WRN_BLOCKS
             THEN OnWarningTile(A2, heap, current_tile, adjacent_tiles, "think")
             ELSE Finish(A2, "think")
    /\ UNCHANGED <<heap, query, work, newc, res, askq, askkb>>
    /\ step' = [possible_pits |-> possible_pits, pit_tiles |-> pit_tiles,
                log |-> <<"tell">>]

\* infer_adjacent_pits, one iteration of the loop of lines 199-203, and what
\* follows the loop when it was the last (lines 206-229)
Infer1 ==
    /\ pc = "infer1"
    /\ \E tile \in frame.todo :
         \E r \in Classify(Agent, heap, tile) :
           LET todo == frame.todo \ {tile}
               copy == IF r.ret = "True" THEN frame.copy \ {tile} ELSE frame.copy
               log == LoggedAsk(Agent, step.log, tile)
           IN  IF todo # {}
                 THEN /\ SetAgent(r.ag)
                      /\ frame' = [frame EXCEPT !.todo = todo, !.copy = copy]
                      /\ UNCHANGED <<pc, env, out>>
                      /\ KeepStep(log)
               ELSE IF Cardinality(copy) = frame.num_pits
                 THEN /\ Finish(MarkPits(r.ag, heap, copy), frame.caller)
                      /\ KeepStep(LoggedTell(log, copy))
               ELSE IF Cardinality(frame.adj) > 3
                 THEN /\ SetAgent(r.ag)
                      /\ pc' = "infer2"
                      /\ frame' = [frame EXCEPT !.todo = frame.adj, !.copy = copy]
                      /\ UNCHANGED <<env, out>>
                      /\ KeepStep(log)
               ELSE /\ Finish(TellCNFIf3(r.ag, heap, frame.adj, frame.num_pits),
                              frame.caller)
                    /\ KeepStep(LoggedCNF(log, frame.adj))
    /\ UNCHANGED <<heap, query, work, newc, res, askq, askkb>>

\* infer_adjacent_pits, one iteration of the loop of lines 219-224, and what
\* follows the loop when it ends (lines 227-229)
Infer2 ==
    /\ pc = "infer2"
    /\ \E tile \in frame.todo :
         \E r \in Classify(Agent, heap, tile) :
           LET todo == frame.todo \ {tile}
               log == LoggedAsk(Agent, step.log, tile)
           IN  IF r.ret = "True"
                 THEN /\ Finish(TellCNFIf3(r.ag, heap, frame.adj \ {tile},
                                           frame.num_pits), frame.caller)
                      /\ KeepStep(LoggedCNF(log, frame.adj \ {tile}))
               ELSE IF todo # {}
                 THEN /\ SetAgent(r.ag)
                      /\ frame' = [frame EXCEPT !.todo = todo]
                      /\ UNCHANGED <<pc, env, out>>
                      /\ KeepStep(log)
               ELSE /\ Finish(TellCNFIf3(r.ag, heap, frame.adj, frame.num_pits),
                              frame.caller)
                    /\ KeepStep(LoggedCNF(log, frame.adj))
    /\ UNCHANGED <<heap, query, work, newc, res, askq, askkb>>

\* return self.find_best_next_move(...), line 147, up to the loop of lines
\* 279-283: nothing of the agent is written
FindBestNextMove ==
    /\ pc = "find"
    /\ FindBest
    /\ UNCHANGED <<heap, kb, query, work, newc, res, askq, askkb,
                   safe_tiles, pit_tiles, possible_pits>>
    /\ KeepStep(step.log)

\* one iteration of `for sorted_move in priority_frontier`, lines 279-283
Select ==
    /\ pc = "select"
    /\ frame.i <= Len(frame.priority_frontier)
    /\ LET sorted_move == frame.priority_frontier[frame.i]
       IN  \E r \in Classify(Agent, heap, sorted_move.loc) :
             /\ SetAgent(r.ag)
             /\ IF r.ret = "True"
                  THEN Moved(sorted_move.loc, "safe")
                  ELSE /\ frame' = [frame EXCEPT !.i = @ + 1]
                       /\ UNCHANGED <<env, pc, out>>
    /\ UNCHANGED <<heap, query, work, newc, res, askq, askkb>>
    /\ KeepStep(LoggedAsk(Agent, step.log,
                          frame.priority_frontier[frame.i].loc))

\* no move was safe and the agent stays where it is
FallbackStay ==
    /\ pc = "select"
    /\ frame.i > Len(frame.priority_frontier)
    /\ Moved(env.player, "fallback")
    /\ UNCHANGED <<heap, kb, query, work, newc, res, askq, askkb,
                   safe_tiles, pit_tiles, possible_pits>>
    /\ step' = NoStep

\* line 286: no move was safe, return priority_frontier[0][1]
Fallback ==
    /\ pc = "select"
    /\ frame.i > Len(frame.priority_frontier)
    /\ Moved(frame.priority_frontier[1].loc, "fallback")
    /\ UNCHANGED <<heap, kb, query, work, newc, res, askq, askkb,
                   safe_tiles, pit_tiles, possible_pits>>
    /\ step' = NoStep

AgentNext ==
    \/ Construct
    \/ Think
    \/ Infer1
    \/ Infer2
    \/ FindBestNextMove
    \/ Select
    \/ Fallback

SpecAgent == AgentInit /\ [][AgentNext]_vars

SpecAcross == AcrossInit /\ [][AgentNext]_vars

SpecSlow == SlowInit /\ [][AgentNext]_vars

\* ----------------------------------------------------- claims, simplify
\* C11: simplify is idempotent: for every clause set, every pair of known
\* sets and every iteration order, a second simplify_self with the same known
\* sets leaves the stored clause set that the first call left.
C11_SimplifyIdempotent ==
    (out.op = "simplify" /\ out.n = 2) =>
        Values(kb, heap) = Values(out.once, heap)

\* C12: simplify is order-independent: the clause set simplify_self leaves is
\* the one every other processing order of the known locations and every
\* other iteration order of the clauses returns for the same arguments.
C12_SimplifyOrderIndependent ==
    (out.op = "simplify" /\ out.n = 1) =>
        \A S2 \in simplify_from_known_locs(out.before, heap,
                                           out.known_pits, out.known_safe) :
            Values(S2, heap) = Values(kb, heap)

\* C13: simplify replaces and so only shrinks: after simplify_self no more
\* clauses are stored than before, no clause of several propositions that
\* resolves against a known unit fact is still stored, and none that a known
\* fact satisfies.
C13_SimplifyShrinks ==
    (out.op = "simplify" /\ out.n = 1) =>
        /\ Cardinality(kb) <= Cardinality(out.before)
        /\ \A e \in out.before, loc \in out.known_pits \cup out.known_safe :
             LET c == Val(heap, e.r)
                 is_pit == loc \in out.known_pits
             IN  (len(c) > 1 /\ (resolve(c, sani_clause(loc, is_pit)) # {}
                                  \/ get_prop(c, loc) = PyBool(is_pit)))
                    => c \notin Values(kb, heap)

\* C14: from a knowledge base holding only the exactly-2-of-3 encoding over
\* A, B, C, after simplify_self with known_safe = {A} and no known pit, ask
\* returns True for Pit(B) and for Pit(C), whatever the iteration orders.
C14_TwoOfThreeAfterSafe ==
    \A t \in Triples :
        (/\ pc = "asked"
         /\ out.op = "simplify" /\ out.n = 1
         /\ Values(out.before, heap) = Values(CNF_to_KB({}, heap, t, 2), heap)
         /\ out.known_pits = {} /\ out.known_safe = {t[1]}
         /\ askq \in {MazeClause(<<<<t[2], TRUE>>>>), MazeClause(<<<<t[3], TRUE>>>>)})
        => res = "True"

\* -------------------------------------------------------- claims, agent
\* the agent is inside a call of think
InThink == pc \in {"infer1", "infer2", "find", "select"}

\* this step is the return of a call of think; env'.player is the move
ThinkReturns == env'.steps = env.steps + 1

\* the loop of lines 279-283 returns its move in this step
SelectReturns == pc = "select" /\ frame.i <= Len(frame.priority_frontier) /\ ThinkReturns

\* line 286 returns in this step
FallbackReturns == pc = "select" /\ frame.i > Len(frame.priority_frontier) /\ ThinkReturns

\* C15: through construction and every sequence of think steps on truthful
\* perceptions, no location is in both safe_tiles and pit_tiles.
C15_ConfirmedDisjoint == safe_tiles \cap pit_tiles = {}

\* C16: no location of possible_pits is in safe_tiles or in pit_tiles; a
\* location confirmed after it was suspected has left possible_pits.
C16_SuspectedDisjoint == possible_pits \cap (safe_tiles \cup pit_tiles) = {}

\* C17: when the loop of find_best_next_move returns a move, no candidate
\* that is known safe (in safe_tiles, so that is_safe_tile answers True
\* whatever the asks do) has a smaller priority value than the move.
C17_BestSafeMove ==
    [][SelectReturns =>
         \A j \in 1..Len(frame.priority_frontier) :
            frame.priority_frontier[j].loc \in safe_tiles =>
               frame.priority_frontier[frame.i].prio <= frame.priority_frontier[j].prio]_vars

\* twice the priority value of candidate c for an agent on tile cur that
\* suspects the tiles poss and has confirmed the pits pit
TwicePriority(c, cur, poss, pit) ==
    (IF c \in pit THEN 40 ELSE 0) + (IF c \in poss THEN 8 ELSE 0)
      + Manhattan(c, cur) + Manhattan(c, env.goal) + Manhattan(c, env.goal)

\* C18: when no candidate is classified safe, the move returned has the
\* smallest priority value of the whole frontier: the candidates listed when
\* the selection starts are the frontier, each with distance to the goal plus
\* half the distance from the current tile, plus 4 if suspected, plus 20 if a
\* confirmed pit (sets as they are when find_best_next_move is entered); the
\* list keeps its values through the selection; and the fallback returns a
\* candidate of the list with the least value.
C18_FallbackIsMinimum ==
    [][/\ (pc # "select" /\ pc' = "select") =>
            /\ {frame'.priority_frontier[k].loc : k \in 1..Len(frame'.priority_frontier)}
                 = get_frontier_locs(env)
            /\ Len(frame'.priority_frontier) = Cardinality(get_frontier_locs(env))
            /\ \A k \in 1..Len(frame'.priority_frontier) :
                  frame'.priority_frontier[k].prio
                    = TwicePriority(frame'.priority_frontier[k].loc, env.player,
                                    possible_pits', pit_tiles')
       /\ (pc = "select" /\ pc' = "select") =>
            frame'.priority_frontier = frame.priority_frontier
       /\ FallbackReturns =>
            \E k \in 1..Len(frame.priority_frontier) :
               /\ frame.priority_frontier[k].loc = env'.player
               /\ \A j \in 1..Len(frame.priority_frontier) :
                     frame.priority_frontier[k].prio <= frame.priority_frontier[j].prio
      ]_vars

\* a fallback among at least three candidates, one of them suspected
C18_Witness ==
    /\ out.op = "think"
    /\ out.how = "fallback"
    /\ Cardinality(out.possible_moves) >= 3
    /\ out.possible_moves \cap possible_pits # {}
    /\ out.possible_moves \ possible_pits # {}

\* C19: whenever the goal is in the frontier handed to find_best_next_move,
\* the move returned is the goal, and no candidate is examined.
C19_GoalFirst ==
    [][(pc # "new" /\ env.goal \in get_frontier_locs(env)) =>
          /\ pc' # "select"
          /\ ThinkReturns => env'.player = env.goal]_vars

\* the goal was returned from a frontier holding a confirmed pit too
C19_Witness ==
    /\ out.op = "think"
    /\ out.how = "goal"
    /\ pc = "goal"
    /\ env.player = env.goal
    /\ out.possible_moves \cap pit_tiles # {}

\* what is left of the loops of a call of think
Measure ==
    IF pc = "infer1" THEN 300 + Cardinality(frame.todo)
    ELSE IF pc = "infer2" THEN 200 + Cardinality(frame.todo)
    ELSE IF pc = "find" THEN 150
    ELSE IF pc = "select" THEN 100 + (Len(frame.priority_frontier) + 1 - frame.i)
    ELSE 0

\* inside a call of think the running loop has a next step: a tile to visit
\* whose classification has an outcome, or a first candidate to fall back on
CanStep ==
    /\ pc \in {"infer1", "infer2"} =>
          /\ frame.todo # {}
          /\ \A tile \in frame.todo : Classify(Agent, heap, tile) # {}
    /\ pc = "select" =>
          /\ Len(frame.priority_frontier) >= 1
          /\ frame.i \in 1..(Len(frame.priority_frontier) + 1)
          /\ frame.i <= Len(frame.priority_frontier) =>
                Classify(Agent, heap, frame.priority_frontier[frame.i].loc) # {}

\* C20: whatever the bounded asks answer (True, False or None for a
\* timeout), a call of think ends and returns a member of the frontier: inside
\* a call a step is always possible and every step decreases Measure, the
\* move returned is in the frontier, and think fails only on an empty frontier.
C20_ProgressUnderTimeouts ==
    /\ []CanStep
    /\ [][/\ InThink => Measure' < Measure
          /\ ThinkReturns => env'.player \in get_frontier_locs(env)
          /\ pc' = "IndexError" => get_frontier_locs(env) = {}]_vars

\* a move was returned from a frontier of four tiles none of which could be
\* classified
C20_Witness ==
    /\ out.op = "think"
    /\ out.how = "fallback"
    /\ pc = "ready"
    /\ Cardinality(out.possible_moves) = 4
    /\ out.move \in out.possible_moves
    /\ out.possible_moves \subseteq possible_pits
    /\ out.possible_moves \cap (safe_tiles \cup pit_tiles) = {}

\* the candidates that were neither suspected nor confirmed pits when the
\* running call of think started
Unsuspected == get_frontier_locs(env) \ (step.possible_pits \cup step.pit_tiles)

\* C21: when every ask times out and some candidate of the frontier was
\* neither in possible_pits nor in pit_tiles when the step started, the move
\* think returns is such a candidate.
C21_PrefersUnsuspected ==
    [][(env.slow /\ pc = "select" /\ ThinkReturns /\ Unsuspected # {})
          => env'.player \in Unsuspected]_vars

\* the tiles is_safe_tile is about to be called on by the running loop
Pending ==
    IF pc \in {"infer1", "infer2"} THEN frame.todo
    ELSE IF pc = "select" /\ frame.i <= Len(frame.priority_frontier)
      THEN {frame.priority_frontier[frame.i].loc}
    ELSE {}

\* C22: when the first bounded ask of is_safe_tile(loc) times out, the call
\* returns None after that single ask, loc joins possible_pits, safe_tiles and
\* pit_tiles are unchanged and the KB is the one the simplify pass before the
\* query left.
C22_TimeoutIsUnknown ==
    \A loc \in Pending :
      \A r \in is_safe_tile(Agent, heap, loc) :
        (Len(r.asks) >= 1 /\ r.asks[1] = "None") =>
            /\ Len(r.asks) = 1
            /\ r.ret = "None"
            /\ r.ag.poss = possible_pits \cup {loc}
            /\ r.ag.safe = safe_tiles
            /\ r.ag.pit = pit_tiles
            /\ r.ag.kb \in simplify_from_known_locs(kb, heap, pit_tiles, safe_tiles)

\* on the slow machine the loop over the frontier has passed a candidate that
\* was unknown and unsuspected when the step started: its ask timed out, it is
\* suspected now and still neither safe nor a pit
C22_Witness ==
    /\ env.slow
    /\ pc = "select"
    /\ frame.i >= 2
    /\ frame.i <= Len(frame.priority_frontier) + 1
    /\ LET loc == frame.priority_frontier[frame.i - 1].loc
       IN  /\ loc \in possible_pits
           /\ loc \notin step.possible_pits
           /\ loc \notin safe_tiles \cup pit_tiles


\* C23: find_best_next_move called with an empty frontier raises instead of
\* returning a location: no move is made, and safe_tiles, pit_tiles,
\* possible_pits and the KB are what they were before the call.
C23_EmptyFrontierRaises ==
    [][(pc = "find" /\ get_frontier_locs(env) = {}) =>
          /\ pc' = "IndexError"
          /\ ~ThinkReturns
          /\ env'.player = env.player
          /\ UNCHANGED <<kb, safe_tiles, pit_tiles, possible_pits>>]_vars

\* think has raised on an empty frontier after the perception of a warning
\* tile had added to the KB and to pit_tiles
C23_Witness ==
    /\ pc = "IndexError"
    /\ out.how = "error"
    /\ get_frontier_locs(env) = {}
    /\ pit_tiles # {}
    /\ kb # {}

\* not both a and b are pits
NotBoth(a, b) == [props |-> [p \in {a, b} |-> FALSE], valid |-> FALSE]

\* at least one of tiles is a pit
AtLeastOne(tiles) == [props |-> [p \in tiles |-> TRUE], valid |-> FALSE]

\* exactly one of tiles is a pit: no two of them are, and one is
ExactlyOne(tiles) ==
    {NotBoth(x[1], x[2]) : x \in {y \in tiles \X tiles : y[1] < y[2]}}
        \cup {AtLeastOne(tiles)}

\* the agent was built on a warning-1 tile with three neighbours of which
\* nothing is known: none is the goal or next to it
OnWarning1Of3 ==
    /\ pc \notin {"new"}
    /\ TileAt(env, env.start) = "1"
    /\ Cardinality(get_cardinal_locs(env.start)) = 3
    /\ get_cardinal_locs(env.start)
          \cap ({env.goal} \cup get_cardinal_locs(env.goal)) = {}

\* C24: an agent on a warning-1 tile with exactly three neighbours it knows
\* nothing about has, after its first step, the four clauses of exactly-1-of-3
\* over the neighbours in its KB (three not-both clauses and the at-least-one
\* clause) and none of the three neighbours in safe_tiles or pit_tiles.
C24_Warning1Encoding ==
    (OnWarning1Of3 /\ pc = "ready" /\ env.steps = 1) =>
        /\ ExactlyOne(get_cardinal_locs(env.start)) \subseteq Values(kb, heap)
        /\ get_cardinal_locs(env.start) \cap (safe_tiles \cup pit_tiles) = {}

\* the first step from such a tile is done, to one of the three neighbours
C24_Witness ==
    /\ OnWarning1Of3
    /\ pc = "ready"
    /\ env.steps = 1
    /\ out.op = "think"
    /\ env.player \in get_cardinal_locs(env.start)
    /\ Cardinality(ExactlyOne(get_cardinal_locs(env.start))) = 4

\* clause c is true of the maze: one of its literals agrees with where the
\* pits are
TrueOfMaze(c) == c.valid \/ \E p \in DOMAIN c.props : c.props[p] = (p \in env.pits)

\* C25: on a maze where some cardinal neighbour of the goal is free of pits,
\* with truthful perceptions, in every state reached through construction and
\* think steps every clause stored in the KB is true of the real pit layout
\* and every location of pit_tiles is a real pit.
C25_ToldIsTrue ==
    (pc # "new" /\ get_cardinal_locs(env.goal) \ env.pits # {}) =>
        /\ pit_tiles \subseteq env.pits
        /\ \A c \in Values(kb, heap) : TrueOfMaze(c)

\* C26: within one call of think no ask is issued before all the percept
\* facts of the step (the fact about the current tile, the facts about the
\* neighbours, the encoding of a warning) are told, and a simplify pass runs
\* between the last of those tells and every ask: in the order of events of
\* the call no tell comes after an ask, and every ask has a simplify pass
\* before it with no tell between the two.
C26_TellSimplifyAsk ==
    (pc \in {"find", "select"} \/ (pc \in {"infer1", "infer2"} /\ frame.caller = "think")) =>
        \A j \in DOMAIN step.log :
            /\ step.log[j] = "tell" => \A i \in 1..(j - 1) : step.log[i] # "ask"
            /\ step.log[j] = "ask" =>
                  \E i \in 1..(j - 1) :
                      /\ step.log[i] = "simplify"
                      /\ \A k \in (i + 1)..(j - 1) : step.log[k] # "tell"

\* C27: ask returns the same answer whether or not tautologies were told to
\* the knowledge base, those that still carry other propositions (P v ~P v Q)
\* included: the answer is the one the knowledge base without them gives.
C27_TautologiesIgnored ==
    (pc = "asked" /\ out.op = "asked") => res = ask(out.twin, heap, askq)

\* the propositions of the clause an entry or a reference stands for
Mentions(H, r) == DOMAIN Val(H, r).props

\* the subsets T of the stored set S that are closed for query q: a stored
\* clause that mentions a proposition of q or of a clause of T is in T
ClosedFor(S, H, q) ==
    {T \in SUBSET S :
        \A e \in S :
            Mentions(H, e.r) \cap (Mentions(H, q) \cup UNION {Mentions(H, t.r) : t \in T}) # {}
                => e \in T}

\* the least of them
Relevant(S, H, q) ==
    CHOOSE T \in ClosedFor(S, H, q) : \A U \in ClosedFor(S, H, q) : T \subseteq U

\* C28: for every stored clause set and every query, in every order in which
\* the stored clauses are scanned, filter_clauses returns the least set of
\* stored clauses closed under "mentions a proposition of the query or of a
\* clause already in the set".
C28_FilterIsClosure ==
    pc = "idle" =>
        \A lst \in PropLists(MaxWidth) :
            LET H == [heap EXCEPT ![0] = MazeClause(lst)]
            IN  \A f \in filter_clauses(kb, H, Ref(0)) :
                    /\ ~f.err
                    /\ {e.r : e \in f.nec} = {e.r : e \in Relevant(kb, H, Ref(0))}

\* the same on the knowledge bases no stored object of which was changed
\* after it was told
FilterIsClosureUnspoiled == Unspoiled => C28_FilterIsClosure

\* the number of the three tiles t that assignment m makes pits
PitsAmong(m, t) == Cardinality({i \in 1..3 : m[t[i]]})

\* C29: for k = 1 and k = 2 and three different locations, the clauses told
\* by CNF_to_KB are satisfied by exactly the truth assignments that make
\* exactly k of the three pit propositions true.
C29_ExactlyKOf3 ==
    out.op = "CNF_to_KB" =>
        \A m \in Assignments :
            (\A c \in Values(kb, heap) : Sat(m, c))
                <=> PitsAmong(m, out.tiles_to_check) = out.possible_pits

\* the encoding of two pits among three tiles was told: four clauses
C29_Witness ==
    /\ out.op = "CNF_to_KB"
    /\ out.possible_pits = 2
    /\ Cardinality(kb) = 4
    /\ \E m \in Assignments : \A c \in Values(kb, heap) : Sat(m, c)

\* assignment m agrees with the known facts of the last simplify_self
AgreesWithKnown(m) ==
    /\ \A p \in out.known_pits : m[p]
    /\ \A p \in out.known_safe : ~m[p]

\* assignment m satisfies every clause of the stored set S
SatAll(m, S) == \A c \in Values(S, heap) : Sat(m, c)

\* C30: for a set of clauses without tautologies and disjoint sets of known
\* pits and known safe tiles, in every iteration order, a truth assignment
\* that agrees with the known facts satisfies the set simplify_from_known_locs
\* returns if and only if it satisfies the set it was given.
C30_SimplifyKeepsMeaning ==
    (/\ out.op = "simplify"
     /\ out.known_pits \cap out.known_safe = {}
     /\ NoTautology(Values(out.before, heap))) =>
        \A m \in Assignments :
            AgreesWithKnown(m) => (SatAll(m, kb) <=> SatAll(m, out.before))

\* simplify_self has removed a clause and added a resolvent, and some
\* assignment that agrees with the known facts satisfies the result
C30_Witness ==
    /\ out.op = "simplify"
    /\ pc = "simplified"
    /\ out.known_pits # {}
    /\ out.known_safe # {}
    /\ out.known_pits \cap out.known_safe = {}
    /\ NoTautology(Values(out.before, heap))
    /\ Values(out.before, heap) \ Values(kb, heap) # {}
    /\ Values(kb, heap) \ Values(out.before, heap) # {}
    /\ \E m \in Assignments : AgreesWithKnown(m) /\ SatAll(m, kb)

=============================================================================
